---- MODULE Spec2Model ----
(***************************************************************************)
(* Relay client and note-assembly pipeline of nostragram.                  *)
(*                                                                         *)
(*   - NostrClient.#fetchWithRetry   (retry wrapper)                       *)
(*   - NostrClient.connect           (singleton session)                   *)
(*   - NostrClient.subscribeEvents / NoteService.subscribeNotes            *)
(*   - NostrClient.sendZapRequest    (zap flow)                            *)
(*   - NoteService.createNoteFromEvent (note assembly)                     *)
(*                                                                         *)
(* JavaScript is single threaded: every action below is one run-to-        *)
(* completion step, from one suspension point (await) to the next.         *)
(***************************************************************************)
EXTENDS Integers, Sequences, FiniteSets, TLC

(***************************************************************************)
(* Program constants (nostrClient.ts:29-31).  The timer lengths only       *)
(* decide which of two pending completions may come first, which the       *)
(* model leaves nondeterministic.                                          *)
(***************************************************************************)
FetchTimeout == 1000
MaxRetries == 3
RetryDelay == 100

(***************************************************************************)
(* Outcomes of a promise: a value, or an error with a kind and a cause.    *)
(***************************************************************************)
Values == {"v1", "v2"}
OpErrors == {"E1", "E2"}

Fulfilled(v) == [ok |-> TRUE, val |-> v, errKind |-> "", errCause |-> ""]
Rejected(kind, cause) == [ok |-> FALSE, val |-> "", errKind |-> kind, errCause |-> cause]
\* new Error('Operation timeout')
TimeoutError == Rejected("Operation timeout", "")

VARIABLES
    fwrPc,          \* #fetchWithRetry: "idle", "racing", "delaying", "resolved", "rejected"
    retries,        \* the `retries` parameter of the running recursion level
    opStatus,       \* per invocation of operation(): "running", "fulfilled", "rejected"
    attemptOutcome, \* per settled attempt: what Promise.race settled with
    delays,         \* number of this.delay(RetryDelay) calls
    fwrResult,      \* <<>> while pending, else <<outcome>> surfaced to the caller
    userProfile     \* user.profile of the NDKUser getUserWithProfile returns (<<>>: unset)

VARIABLES
    nostrClient,    \* static #nostrClient: 0 while unset, else the id of the cached session
    cPc,            \* per connect() call site: where the call is suspended
    cRet,           \* per call site: the session the last call returned (0: none)
    sessionsCreated,\* number of `new NostrClient(ndk, user)` evaluations
    returnedSessions,\* every session a connect() call has resolved with
    connectCalls    \* number of connect() calls made

VARIABLES
    subPc,          \* subscribeNotes: "none", "follows", "subscribed", "failed"
    subIsForever,   \* options?.isForever: "omitted", "true" or "false"
    subCloseOnEose, \* the closeOnEose option the subscription was opened with
    subState,       \* the relay subscription: "none", "open", "closed"
    eoseSignaled,   \* end-of-stored-events has been signaled
    unsubscribed,   \* the unsubscribe handle has been called
    relayLog,       \* matching events the relays sent, in order, with what happened
    assembly,       \* per relay event: "none", "assembling", "noted", "failed"
    onNoteLog       \* invocations of onNote, in order

VARIABLES
    zapPc,          \* sendZapRequest: "idle", "resolving", "signing", "metadata",
                    \* "callback", "done", "failed"
    zapNip05,       \* the nip05Id argument
    zapSat,         \* the sat argument
    zapTo,          \* what NDKUser.fromNip05 resolved with: <<>> or <<pubkey>>
    zapEvent,       \* unsignedEvent (<<>> before it is built, else <<event>>)
    zapSig,         \* the signature the signer returned (Absent before)
    zapLnurlPay,    \* the provider's metadata body (<<>> before, else <<body>>)
    zapEndpoint,    \* the URL the callback GET is issued against (<<>> or <<url>>)
    zapSteps,       \* collaborator calls issued by the running call, in order
    zapError,       \* kind of the error the call rejected with ("" if none)
    zapReturn,      \* <<>> or <<result>> the call resolved with
    zapResponse,    \* <<>> or <<response.data>> of the callback GET of this call
    zapMetadata     \* <<>> or <<metadata>> event built by #getZapEndpointWithParams

VARIABLES
    notePc,         \* top-level createNoteFromEvent: "idle", "running", "done", "failed"
    frames,         \* the suspended createNoteFromEvent calls, outermost first
    noteStore,      \* per event id: <<>> or <<[tags, content]>> of the event as seen so far
    noteFetches,    \* ids passed to nostrClient.fetchEvent, in order
    noteResult,     \* <<>> or <<Note>> the top-level call resolved with
    noteError       \* "" or what the top-level call rejected with

VARIABLES
    mediaPc,        \* extractMedia: "idle", "returned", "threw"
    mediaContent,   \* event.content of the last call
    mediaResult     \* the Media[] the last call resolved with

VARIABLES
    rxPc,           \* createNoteReactionsFromEvent: "idle", "reactionEvents",
                    \* "repostEvents", "zapsAmount", "done", "failed"
    rxIssued,       \* the fetches the running call has issued, in order
    rxReactionEvents,\* contents of the reaction events fetchEvents resolved with
    rxLikesCount,   \* let likesCount
    rxCustomReactions,\* const customReactions: trimmed content -> count
    rxRepostEvents, \* ids of the repost events fetchEvents resolved with
    rxRepostsCount, \* let repostsCount
    rxZapsAmount,   \* let zapsAmount
    rxResult        \* <<>> or <<NoteReactions>> the call resolved with

retryVars == <<fwrPc, retries, opStatus, attemptOutcome, delays, fwrResult, userProfile>>
connectVars == <<nostrClient, cPc, cRet, sessionsCreated, returnedSessions, connectCalls>>
subVars == <<subPc, subIsForever, subCloseOnEose, subState, eoseSignaled,
             unsubscribed, relayLog, assembly, onNoteLog>>

zapVars == <<zapPc, zapNip05, zapSat, zapTo, zapEvent, zapSig, zapLnurlPay,
             zapEndpoint, zapSteps, zapError, zapReturn, zapResponse, zapMetadata>>

noteVars == <<notePc, frames, noteStore, noteFetches, noteResult, noteError>>

rxVars == <<rxPc, rxIssued, rxReactionEvents, rxLikesCount, rxCustomReactions,
            rxRepostEvents, rxRepostsCount, rxZapsAmount, rxResult>>

mediaVars == <<mediaPc, mediaContent, mediaResult>>

vars == <<retryVars, connectVars, subVars, zapVars, noteVars, rxVars, mediaVars>>

\* What each component leaves alone.
notRetryVars == <<connectVars, subVars, zapVars, noteVars, rxVars, mediaVars>>
notConnectVars == <<retryVars, subVars, zapVars, noteVars, rxVars, mediaVars>>
notSubVars == <<retryVars, connectVars, zapVars, noteVars, rxVars, mediaVars>>
notZapVars == <<retryVars, connectVars, subVars, noteVars, rxVars, mediaVars>>
notNoteVars == <<retryVars, connectVars, subVars, zapVars, rxVars, mediaVars>>
notMediaVars == <<retryVars, connectVars, subVars, zapVars, noteVars, rxVars>>
notRxVars == <<retryVars, connectVars, subVars, zapVars, noteVars, mediaVars>>

-----------------------------------------------------------------------------
(* NostrClient.#fetchWithRetry                                             *)

RetryInit ==
    /\ fwrPc = "idle"
    /\ retries = 0
    /\ opStatus = <<>>
    /\ attemptOutcome = <<>>
    /\ delays = 0
    /\ fwrResult = <<>>
    /\ userProfile = <<>>

\* `retries < MaxRetries - 1`
ShouldRetryOffByOne(r) == r < MaxRetries
ShouldRetry(r) == r < MaxRetries - 1

\* `throw error`: the caught error itself is rethrown
SurfacedErrorWrapped(error) == Rejected("RetriesExhausted", error.errKind)
SurfacedError(error) == error

\* The invocation of operation() the running recursion level races on.
CurrentAttempt == Len(opStatus)

\* Entry of one recursion level up to its await: operation() is invoked and
\* raced against a fresh FetchTimeout timer.
EnterLevel(r) ==
    /\ retries' = r
    /\ opStatus' = Append(opStatus, "running")
    /\ fwrPc' = "racing"

\* getUserWithProfile gets a fresh NDKUser and calls
\* this.#fetchWithRetry(() => user.fetchProfile()) (retries = 0).
FetchWithRetry ==
    /\ fwrPc \in {"idle", "resolved", "rejected"}
    /\ userProfile' = <<>>
    /\ retries' = 0
    /\ opStatus' = <<"running">>
    /\ fwrPc' = "racing"
    /\ attemptOutcome' = <<>>
    /\ delays' = 0
    /\ fwrResult' = <<>>
    /\ UNCHANGED notRetryVars

\* What the level does once the race has settled with `outcome`:
\* return the value, or catch: delay and recurse, or rethrow.
AfterRace(outcome) ==
    /\ attemptOutcome' = Append(attemptOutcome, outcome)
    /\ IF outcome.ok
         THEN /\ fwrPc' = "resolved"
              /\ fwrResult' = <<outcome>>
              /\ delays' = delays
         ELSE IF ShouldRetry(retries)
                THEN /\ fwrPc' = "delaying"
                     /\ delays' = delays + 1
                     /\ fwrResult' = fwrResult
                ELSE /\ fwrPc' = "rejected"
                     /\ fwrResult' = <<SurfacedError(outcome)>>
                     /\ delays' = delays
    /\ retries' = retries

\* An invocation of operation() fulfils: user.fetchProfile() has stored the
\* profile it fetched in user.profile.  Only the invocation the level is
\* racing on settles the race; for the race a completion of an abandoned
\* one is dropped.
OpFulfil ==
    \E i \in 1..Len(opStatus), v \in Values :
        /\ opStatus[i] = "running"
        /\ opStatus' = [opStatus EXCEPT ![i] = "fulfilled"]
        /\ userProfile' = <<v>>
        /\ IF fwrPc = "racing" /\ i = CurrentAttempt
             THEN AfterRace(Fulfilled(v))
             ELSE UNCHANGED <<fwrPc, retries, attemptOutcome, delays, fwrResult>>
        /\ UNCHANGED notRetryVars

OpReject ==
    \E i \in 1..Len(opStatus), e \in OpErrors :
        /\ opStatus[i] = "running"
        /\ opStatus' = [opStatus EXCEPT ![i] = "rejected"]
        /\ UNCHANGED userProfile
        /\ IF fwrPc = "racing" /\ i = CurrentAttempt
             THEN AfterRace(Rejected(e, ""))
             ELSE UNCHANGED <<fwrPc, retries, attemptOutcome, delays, fwrResult>>
        /\ UNCHANGED notRetryVars

\* The FetchTimeout timer of the running level fires first: the race rejects
\* with the timeout error; operation() is not aborted and stays running.
OpTimeout ==
    /\ fwrPc = "racing"
    /\ opStatus[CurrentAttempt] = "running"
    /\ AfterRace(TimeoutError)
    /\ UNCHANGED <<opStatus, userProfile>>
    /\ UNCHANGED notRetryVars

\* Guard of the recursive call: the delay promise resolved.
DelayGuardHedged == fwrPc \in {"delaying", "racing"}
DelayGuard == fwrPc = "delaying"

\* this.delay(RetryDelay) elapsed: recurse with retries + 1.
DelayElapsed ==
    /\ DelayGuard
    /\ EnterLevel(retries + 1)
    /\ UNCHANGED <<attemptOutcome, delays, fwrResult, userProfile>>
    /\ UNCHANGED notRetryVars

RetryNext ==
    \/ FetchWithRetry
    \/ OpFulfil
    \/ OpReject
    \/ OpTimeout
    \/ DelayElapsed

-----------------------------------------------------------------------------
(* NostrClient.connect                                                     *)

\* Call sites that may call connect() concurrently, and the number of calls.
NumCallers == 2
MaxConnectCalls == 3
Callers == 1..NumCallers

ConnectInit ==
    /\ nostrClient = 0
    /\ cPc = [c \in Callers |-> "idle"]
    /\ cRet = [c \in Callers |-> 0]
    /\ sessionsCreated = 0
    /\ returnedSessions = {}
    /\ connectCalls = 0

\* connect() up to its first await: the cached session is returned when set,
\* else a signer is created and the call suspends in blockUntilReady().
Connect(c) ==
    /\ cPc[c] \in {"idle", "returned", "failed"}
    /\ connectCalls < MaxConnectCalls
    /\ connectCalls' = connectCalls + 1
    /\ IF nostrClient # 0
         THEN /\ cPc' = [cPc EXCEPT ![c] = "returned"]
              /\ cRet' = [cRet EXCEPT ![c] = nostrClient]
              /\ returnedSessions' = returnedSessions \cup {nostrClient}
         ELSE /\ cPc' = [cPc EXCEPT ![c] = "blockUntilReady"]
              /\ cRet' = [cRet EXCEPT ![c] = 0]
              /\ returnedSessions' = returnedSessions
    /\ UNCHANGED <<nostrClient, sessionsCreated>>
    /\ UNCHANGED notConnectVars

\* signer.blockUntilReady() resolved: new NDK, assertSigner, await ndk.connect(1)
SignerReadyCachesEarly(c) ==
    /\ cPc[c] = "blockUntilReady"
    /\ cPc' = [cPc EXCEPT ![c] = "ndkConnect"]
    /\ sessionsCreated' = sessionsCreated + 1
    /\ nostrClient' = sessionsCreated + 1
    /\ UNCHANGED <<cRet, returnedSessions, connectCalls>>
    /\ UNCHANGED notConnectVars
SignerReady(c) ==
    /\ cPc[c] = "blockUntilReady"
    /\ cPc' = [cPc EXCEPT ![c] = "ndkConnect"]
    /\ UNCHANGED <<nostrClient, cRet, sessionsCreated, returnedSessions, connectCalls>>
    /\ UNCHANGED notConnectVars

\* ndk.connect(1) resolved: await ndk.signer.user()
NdkConnected(c) ==
    /\ cPc[c] = "ndkConnect"
    /\ cPc' = [cPc EXCEPT ![c] = "signerUser"]
    /\ UNCHANGED <<nostrClient, cRet, sessionsCreated, returnedSessions, connectCalls>>
    /\ UNCHANGED notConnectVars

\* signer.user() resolved: await user.fetchProfile()
SignerUser(c) ==
    /\ cPc[c] = "signerUser"
    /\ cPc' = [cPc EXCEPT ![c] = "fetchProfile"]
    /\ UNCHANGED <<nostrClient, cRet, sessionsCreated, returnedSessions, connectCalls>>
    /\ UNCHANGED notConnectVars

\* user.fetchProfile() resolved: the session is constructed, stored in the
\* static field without a second look at it, and returned.
ProfileFetched(c) ==
    /\ cPc[c] = "fetchProfile"
    /\ sessionsCreated' = sessionsCreated + 1
    /\ nostrClient' = sessionsCreated + 1
    /\ cPc' = [cPc EXCEPT ![c] = "returned"]
    /\ cRet' = [cRet EXCEPT ![c] = sessionsCreated + 1]
    /\ returnedSessions' = returnedSessions \cup {sessionsCreated + 1}
    /\ UNCHANGED connectCalls
    /\ UNCHANGED notConnectVars

\* Any of the awaited collaborator calls rejects: connect() rejects.
ConnectStepFails(c) ==
    /\ cPc[c] \in {"blockUntilReady", "ndkConnect", "signerUser", "fetchProfile"}
    /\ cPc' = [cPc EXCEPT ![c] = "failed"]
    /\ UNCHANGED <<nostrClient, cRet, sessionsCreated, returnedSessions, connectCalls>>
    /\ UNCHANGED notConnectVars

ConnectNext ==
    \E c \in Callers :
        \/ Connect(c)
        \/ SignerReady(c)
        \/ NdkConnected(c)
        \/ SignerUser(c)
        \/ ProfileFetched(c)
        \/ ConnectStepFails(c)

-----------------------------------------------------------------------------
(* NoteService.subscribeNotes over NostrClient.subscribeEvents             *)

\* Matching events the relays send during one subscription.
MaxRelayEvents == 3
EventIds == {"a", "b", "c"}
SubEventIds == {"a", "b"}

SubInit ==
    /\ subPc = "none"
    /\ subIsForever = "omitted"
    /\ subCloseOnEose = FALSE
    /\ subState = "none"
    /\ eoseSignaled = FALSE
    /\ unsubscribed = FALSE
    /\ relayLog = <<>>
    /\ assembly = <<>>
    /\ onNoteLog = <<>>

\* `isForever: boolean = true`: the default applies when undefined is passed
IsForeverParamDefaultFalse(opt) == opt = "true"
IsForeverParam(opt) == IF opt = "omitted" THEN TRUE ELSE opt = "true"

\* `closeOnEose: !isForever`
CloseOnEoseSame(isForever) == isForever
CloseOnEose(isForever) == ~isForever

\* subscription.stop(): the subscription is closed whatever its state was
AfterStopNoop(s) == s
AfterStop(s) == "closed"

\* subscribeNotes up to its first suspension in user.follows()
\* (getLoggedInUser returns the cached user).
SubscribeNotes ==
    \E opt \in {"omitted", "true", "false"} :
        /\ subPc = "none"
        /\ subPc' = "follows"
        /\ subIsForever' = opt
        /\ UNCHANGED <<subCloseOnEose, subState, eoseSignaled, unsubscribed,
                       relayLog, assembly, onNoteLog>>
        /\ UNCHANGED notSubVars

\* user.follows() resolved: the filter is built and subscribeEvents opens the
\* subscription, registers the handler and returns the unsubscribe handle.
FollowsResolved ==
    /\ subPc = "follows"
    /\ subPc' = "subscribed"
    /\ subCloseOnEose' = CloseOnEose(IsForeverParam(subIsForever))
    /\ subState' = "open"
    /\ UNCHANGED <<subIsForever, eoseSignaled, unsubscribed, relayLog, assembly, onNoteLog>>
    /\ UNCHANGED notSubVars

FollowsRejected ==
    /\ subPc = "follows"
    /\ subPc' = "failed"
    /\ UNCHANGED <<subIsForever, subCloseOnEose, subState, eoseSignaled, unsubscribed,
                   relayLog, assembly, onNoteLog>>
    /\ UNCHANGED notSubVars

\* Ids of the events already sent to the subscription
SentIds == {relayLog[i].id : i \in 1..Len(relayLog)}

\* A relay sends a matching event.  An open subscription emits 'event': the
\* handler calls onEvent, which starts createNoteFromEvent and suspends in it.
\* A closed subscription emits nothing.  An event the subscription has seen
\* before (sent again by another relay) may be emitted again or dropped.
RelaySendsEvent ==
    \E e \in SubEventIds, dropped \in BOOLEAN :
        /\ subState \in {"open", "closed"}
        /\ Len(relayLog) < MaxRelayEvents
        /\ dropped => (e \in SentIds /\ subState = "open")
        /\ relayLog' = Append(relayLog, [id |-> e,
                                         duplicate |-> e \in SentIds,
                                         afterEose |-> eoseSignaled,
                                         afterUnsub |-> unsubscribed,
                                         emitted |-> subState = "open" /\ ~dropped])
        /\ assembly' = Append(assembly, IF subState = "open" /\ ~dropped
                                          THEN "assembling" ELSE "none")
        /\ UNCHANGED <<subPc, subIsForever, subCloseOnEose, subState, eoseSignaled,
                       unsubscribed, onNoteLog>>
        /\ UNCHANGED notSubVars

\* The relays signal end-of-stored-events to the open subscription, which
\* closes itself when it was opened with closeOnEose.
RelayEose ==
    /\ subState = "open"
    /\ ~eoseSignaled
    /\ eoseSignaled' = TRUE
    /\ subState' = IF subCloseOnEose THEN "closed" ELSE subState
    /\ UNCHANGED <<subPc, subIsForever, subCloseOnEose, unsubscribed, relayLog,
                   assembly, onNoteLog>>
    /\ UNCHANGED notSubVars

\* The handle's unsubscribe(): subscription.stop()
Unsubscribe ==
    /\ subPc = "subscribed"
    /\ subState' = AfterStop(subState)
    /\ unsubscribed' = TRUE
    /\ UNCHANGED <<subPc, subIsForever, subCloseOnEose, eoseSignaled, relayLog,
                   assembly, onNoteLog>>
    /\ UNCHANGED notSubVars

\* createNoteFromEvent resolved inside the handler: onNote(note)
AssemblyDone ==
    \E i \in 1..Len(assembly) :
        /\ assembly[i] = "assembling"
        /\ assembly' = [assembly EXCEPT ![i] = "noted"]
        /\ onNoteLog' = Append(onNoteLog, [idx |-> i, afterUnsub |-> unsubscribed])
        /\ UNCHANGED <<subPc, subIsForever, subCloseOnEose, subState, eoseSignaled,
                       unsubscribed, relayLog>>
        /\ UNCHANGED notSubVars

\* createNoteFromEvent rejected inside the handler: onNote is not called
AssemblyFails ==
    \E i \in 1..Len(assembly) :
        /\ assembly[i] = "assembling"
        /\ assembly' = [assembly EXCEPT ![i] = "failed"]
        /\ UNCHANGED <<subPc, subIsForever, subCloseOnEose, subState, eoseSignaled,
                       unsubscribed, relayLog, onNoteLog>>
        /\ UNCHANGED notSubVars

SubNext ==
    \/ SubscribeNotes
    \/ FollowsResolved
    \/ FollowsRejected
    \/ RelaySendsEvent
    \/ RelayEose
    \/ Unsubscribe
    \/ AssemblyDone
    \/ AssemblyFails

-----------------------------------------------------------------------------
(* NostrClient.sendZapRequest                                              *)

\* Largest sat argument tried.
MaxSat == 3

\* An absent (undefined) property of an object.
Absent == <<>>

Nip05Ids == {"alice@example.com"}
RecipientPubkeys == {"pkAlice"}
UserPubkey == "pkMe"
Times == {1700000000}
Relays == <<"wss://relay.hakua.xyz", "wss://relay.damus.io", "wss://relay.nostr.band">>
\* NDKKind.ZapRequest
ZapRequestKind == 9734

\* Number.prototype.toString: the decimal digits of a non-negative integer
RECURSIVE DecStr(_)
DecStr(n) == IF n < 10 THEN <<n>> ELSE Append(DecStr(n \div 10), n % 10)

\* Unary plus on a string of decimal digits
RECURSIVE ParseNum(_)
ParseNum(str) ==
    IF Len(str) = 0 THEN 0
    ELSE 10 * ParseNum(SubSeq(str, 1, Len(str) - 1)) + str[Len(str)]

\* lnurlPay.toLnurlPayUrl / toBech32EncodedLnurl: the pay URL of an address
\* and its bech32 encoding, kept symbolic.
ToLnurlPayUrl(lud16) == <<"lnurlp", lud16>>
ToBech32EncodedLnurl(url) == <<"lnurl1", url>>

\* utils.generateEventId: the hash of the canonical serialization
\* [0, pubkey, created_at, kind, tags, content], kept symbolic.
GenerateEventId(ev) == <<"sha256", 0, ev.pubkey, ev.created_at, ev.kind, ev.tags, ev.content>>

\* JSON.stringify of an event: the defined properties, in insertion order
StringifyEvent(ev) ==
    << <<"kind", ev.kind>>, <<"pubkey", ev.pubkey>>, <<"created_at", ev.created_at>>,
       <<"tags", ev.tags>>, <<"content", ev.content>> >>
    \o (IF ev.id # Absent THEN << <<"id", ev.id>> >> ELSE <<>>)
    \o (IF ev.sig # Absent THEN << <<"sig", ev.sig>> >> ELSE <<>>)

\* encodeURI, kept symbolic
EncodeURI(str) == <<"encodeURI", str>>

\* What the NIP-07 signer returns for an event: a signature over it
Sign(ev) == <<"sig", UserPubkey, GenerateEventId(ev)>>

\* The object literal and the push of #makeZapRequest
MakeZapRequestIdAfterPush(nip05Id, msat, toPubkey, now) ==
    LET unsignedEvent ==
            [kind |-> ZapRequestKind,
             pubkey |-> UserPubkey,
             created_at |-> now,
             tags |-> << <<"relays">> \o Relays,
                         <<"amount", DecStr(msat)>>,
                         <<"lnurl", ToBech32EncodedLnurl(ToLnurlPayUrl(nip05Id))>>,
                         <<"p", toPubkey>>,
                         <<"e", "">> >>,
             content |-> "zap request",
             id |-> Absent,
             sig |-> Absent]
        eventId == GenerateEventId(unsignedEvent)
    IN [unsignedEvent EXCEPT !.tags[5] = <<"e", eventId>>]
MakeZapRequest(nip05Id, msat, toPubkey, now) ==
    LET unsignedEvent ==
            [kind |-> ZapRequestKind,
             pubkey |-> UserPubkey,
             created_at |-> now,
             tags |-> << <<"relays">> \o Relays,
                         <<"amount", DecStr(msat)>>,
                         <<"lnurl", ToBech32EncodedLnurl(ToLnurlPayUrl(nip05Id))>>,
                         <<"p", toPubkey>> >>,
             content |-> "zap request",
             id |-> Absent,
             sig |-> Absent]
        eventId == GenerateEventId(unsignedEvent)
    IN [unsignedEvent EXCEPT !.tags = Append(@, <<"e", eventId>>)]

\* `if (!to)`
UserResolvedAlways(to) == TRUE
UserResolved(to) == to # Absent

\* The event whose JSON goes into the `nostr` query parameter
NostrParamEventSigned(unsignedEvent, sig) ==
    [unsignedEvent EXCEPT !.id = unsignedEvent.tags[5][2], !.sig = sig]
NostrParamEvent(unsignedEvent, sig) == unsignedEvent

\* The metadata event of #getZapEndpointWithParams
Metadata(unsignedEvent, sig, lud16) ==
    [unsignedEvent EXCEPT !.id = unsignedEvent.tags[5][2],
                          !.kind = 0,
                          !.sig = sig,
                          !.content = <<"JSON", <<"lud16", lud16>> >>]

\* The positional reads `+unsignedEvent.tags[1][1]` and `unsignedEvent.tags[2][1]`
AmountOf(unsignedEvent) == ParseNum(unsignedEvent.tags[2][2])
LnurlOfPreviousTag(unsignedEvent) == unsignedEvent.tags[2][2]
LnurlOf(unsignedEvent) == unsignedEvent.tags[3][2]

\* The two bounds checks of #getZapEndpointWithParams ("" when both pass);
\* 0 and a missing bound are both falsy.
BelowMinSendable(amount, lnurlPay) ==
    lnurlPay.minSendable # 0 /\ amount < lnurlPay.minSendable
AboveMaxSendableInclusive(amount, lnurlPay) ==
    lnurlPay.maxSendable # 0 /\ amount >= lnurlPay.maxSendable
AboveMaxSendable(amount, lnurlPay) ==
    lnurlPay.maxSendable # 0 /\ amount > lnurlPay.maxSendable
AmountErrorMinOnly(amount, lnurlPay) ==
    IF BelowMinSendable(amount, lnurlPay)
      THEN "NostrMinSendableConstraintError"
      ELSE ""
AmountError(amount, lnurlPay) ==
    IF BelowMinSendable(amount, lnurlPay)
      THEN "NostrMinSendableConstraintError"
    ELSE IF AboveMaxSendable(amount, lnurlPay)
      THEN "NostrMaxSendableConstraintError"
    ELSE ""

\* Bodies the provider's lnurlp endpoint may answer with.
SendableBounds == {0, 1000, 2000, 3000}
LnurlPayBodies ==
    [allowsNostr : BOOLEAN, nostrPubkey : {"", "pkProvider"},
     callback : {"", "https://pay.example.com/cb"},
     minSendable : SendableBounds, maxSendable : SendableBounds]

\* Bodies the callback endpoint may answer with (none: <<>>).
CallbackBodies ==
    [status : {"OK", "ERROR"}, pr : {"", "lnbc1"},
     verify : {"", "https://pay.example.com/verify"}, successAction : {"", "thanks"}]

ZapInit ==
    /\ zapPc = "idle"
    /\ zapNip05 = ""
    /\ zapSat = 0
    /\ zapTo = <<>>
    /\ zapEvent = <<>>
    /\ zapSig = Absent
    /\ zapLnurlPay = <<>>
    /\ zapEndpoint = <<>>
    /\ zapSteps = <<>>
    /\ zapError = ""
    /\ zapReturn = <<>>
    /\ zapResponse = <<>>
    /\ zapMetadata = <<>>

ZapFails(kind) ==
    /\ zapPc' = "failed"
    /\ zapError' = kind

\* sendZapRequest up to the await in #makeZapRequest (NDKUser.fromNip05)
SendZapRequest ==
    \E nip05Id \in Nip05Ids, sat \in 0..MaxSat :
        /\ zapPc \in {"idle", "done", "failed"}
        /\ zapPc' = "resolving"
        /\ zapNip05' = nip05Id
        /\ zapSat' = sat
        /\ zapTo' = <<>>
        /\ zapEvent' = <<>>
        /\ zapSig' = Absent
        /\ zapLnurlPay' = <<>>
        /\ zapEndpoint' = <<>>
        /\ zapSteps' = <<"resolve">>
        /\ zapError' = ""
        /\ zapReturn' = <<>>
        /\ zapResponse' = <<>>
        /\ zapMetadata' = <<>>
        /\ UNCHANGED notZapVars

\* NDKUser.fromNip05 resolved, with a user or with undefined (it reports a
\* failed lookup as undefined): the zap request is built and handed to
\* signer.sign.
ResolveReturns ==
    \E to \in {Absent} \cup {<<pk>> : pk \in RecipientPubkeys}, now \in Times :
        /\ zapPc = "resolving"
        /\ zapTo' = to
        /\ IF ~UserResolved(to)
             THEN /\ ZapFails("NostrUnknownUserError")
                  /\ UNCHANGED <<zapEvent, zapSteps>>
             ELSE /\ zapEvent' = <<MakeZapRequest(zapNip05, zapSat * 1000,
                                                 IF to = Absent THEN "" ELSE to[1], now)>>
                  /\ zapSteps' = Append(zapSteps, "sign")
                  /\ zapPc' = "signing"
                  /\ UNCHANGED zapError
        /\ UNCHANGED <<zapNip05, zapSat, zapSig, zapLnurlPay, zapEndpoint, zapReturn,
                       zapResponse, zapMetadata>>
        /\ UNCHANGED notZapVars

\* signer.sign resolved: #getZapEndpointWithParams builds the metadata
\* event and #requestLnurlPay issues the GET of the provider's pay URL.
SignReturns ==
    /\ zapPc = "signing"
    /\ zapSig' = Sign(zapEvent[1])
    /\ zapMetadata' = <<Metadata(zapEvent[1], Sign(zapEvent[1]), zapNip05)>>
    /\ zapSteps' = Append(zapSteps, "metadataGET")
    /\ zapPc' = "metadata"
    /\ UNCHANGED <<zapNip05, zapSat, zapTo, zapEvent, zapLnurlPay, zapEndpoint,
                   zapError, zapReturn, zapResponse>>
    /\ UNCHANGED notZapVars

SignRejects ==
    /\ zapPc = "signing"
    /\ ZapFails("SignerError")
    /\ UNCHANGED <<zapNip05, zapSat, zapTo, zapEvent, zapSig, zapLnurlPay, zapEndpoint,
                   zapSteps, zapReturn, zapResponse, zapMetadata>>
    /\ UNCHANGED notZapVars

\* The provider answered the metadata GET with `body`: the rest of
\* #requestLnurlPay and #getZapEndpointWithParams, then the callback GET.
MetadataReturns ==
    \E body \in LnurlPayBodies :
        /\ zapPc = "metadata"
        /\ zapLnurlPay' = <<body>>
        /\ LET unsignedEvent == zapEvent[1]
               nostr == EncodeURI(StringifyEvent(NostrParamEvent(unsignedEvent, zapSig)))
               amount == AmountOf(unsignedEvent)
               lnurl == LnurlOf(unsignedEvent)
           IN IF ~body.allowsNostr \/ body.nostrPubkey = ""
                THEN /\ ZapFails("NostrRequestLnurlPayError")
                     /\ UNCHANGED <<zapEndpoint, zapSteps>>
              ELSE IF body.callback = ""
                THEN /\ ZapFails("NostrGetZapEndpointCallbackUrlError")
                     /\ UNCHANGED <<zapEndpoint, zapSteps>>
              ELSE IF AmountError(amount, body) # ""
                THEN /\ ZapFails(AmountError(amount, body))
                     /\ UNCHANGED <<zapEndpoint, zapSteps>>
              ELSE /\ zapEndpoint' = <<[callback |-> body.callback,
                                        searchParams |-> << <<"amount", DecStr(amount)>>,
                                                            <<"nostr", nostr>>,
                                                            <<"lnurl", lnurl>> >>]>>
                   /\ zapSteps' = Append(zapSteps, "callbackGET")
                   /\ zapPc' = "callback"
                   /\ UNCHANGED zapError
        /\ UNCHANGED <<zapNip05, zapSat, zapTo, zapEvent, zapSig, zapReturn, zapResponse,
                       zapMetadata>>
        /\ UNCHANGED notZapVars

\* The metadata GET rejected: wrapped into NostrRequestLnurlPayError
MetadataRejects ==
    /\ zapPc = "metadata"
    /\ ZapFails("NostrRequestLnurlPayError")
    /\ UNCHANGED <<zapNip05, zapSat, zapTo, zapEvent, zapSig, zapLnurlPay, zapEndpoint,
                   zapSteps, zapReturn, zapResponse, zapMetadata>>
    /\ UNCHANGED notZapVars

\* The checks on the callback response: the kind of the error thrown, "" if none
CallbackFailureStatusOnly(data) ==
    IF data = <<>> \/ data[1].status # "OK" THEN "NostrCallZapEndpointError"
    ELSE ""
CallbackFailure(data) ==
    IF data = <<>> \/ data[1].status # "OK" THEN "NostrCallZapEndpointError"
    ELSE IF data[1].pr = "" THEN "NostrInvoiceNotFoundError"
    ELSE ""

\* The callback GET resolved with response.data = data (<<>>: no body)
CallbackReturns ==
    \E data \in {<<>>} \cup {<<b>> : b \in CallbackBodies} :
        /\ zapPc = "callback"
        /\ zapResponse' = <<data>>
        /\ IF CallbackFailure(data) # ""
             THEN /\ ZapFails(CallbackFailure(data))
                  /\ UNCHANGED zapReturn
           ELSE /\ zapPc' = "done"
                /\ zapReturn' = <<[pr |-> data[1].pr, verify |-> data[1].verify,
                                   successAction |-> data[1].successAction]>>
                /\ UNCHANGED zapError
        /\ UNCHANGED <<zapNip05, zapSat, zapTo, zapEvent, zapSig, zapLnurlPay,
                       zapEndpoint, zapSteps, zapMetadata>>
        /\ UNCHANGED notZapVars

\* The callback GET rejected: the HTTP client's error propagates
CallbackRejects ==
    /\ zapPc = "callback"
    /\ ZapFails("AxiosError")
    /\ UNCHANGED <<zapNip05, zapSat, zapTo, zapEvent, zapSig, zapLnurlPay, zapEndpoint,
                   zapSteps, zapReturn, zapResponse, zapMetadata>>
    /\ UNCHANGED notZapVars

ZapNext ==
    \/ SendZapRequest
    \/ ResolveReturns
    \/ SignReturns
    \/ SignRejects
    \/ MetadataReturns
    \/ MetadataRejects
    \/ CallbackReturns
    \/ CallbackRejects

-----------------------------------------------------------------------------
(* NoteService.extractMedia and the URL classifiers                        *)

\* Words of one content
MaxWords == 2

imageExtensions == {"jpg", "jpeg", "png", "gif", "webp", "svg"}
videoExtensions == {"mp4", "webm", "ogg", "mov", "avi"}

\* A content is the sequence of its whitespace-delimited words and a word the
\* sequence of its lexical tokens: a scheme, a host, "/", ".", "?", "=", or
\* a run of word characters ([\w-]+).
Schemes == {"http://", "https://"}
WordTokens == {"a", "v", "f", "abc", "watch", "page", "hello",
               "jpg", "JPG", "png", "mp4"}

\* Hosts `new URL` rejects: a bracketed host that is no IPv6 address
InvalidHosts == {"[example]"}

Words ==
    { <<"hello">>,
      <<"https://", "example.com", "/", "a", ".", "jpg">>,
      <<"https://", "example.com", "/", "a", ".", "JPG">>,
      <<"http://", "example.com", "/", "v", ".", "mp4">>,
      <<"https://", "youtu.be", "/", "abc">>,
      <<"https://", "youtube.com", "/", "watch", "?", "v", "=", "abc">>,
      <<"https://", "youtube.com", "/", "a", ".", "png">>,
      <<"https://", "youtube.com", "/">>,
      <<"https://", "example.com", "/", "page">>,
      <<"https://", "example.com", "/", "?", "f", "=", "a", ".", "jpg">>,
      <<"https://", "example.com", "/", "a", ".", "jpg", "?", "v", "=", "abc">>,
      <<"https://", "[example]">> }

\* String.prototype.toLowerCase, token by token
ToLowerCase(str) == [k \in 1..Len(str) |-> IF str[k] = "JPG" THEN "jpg" ELSE str[k]]

\* `content.match(urlPattern) || []`: the words the pattern
\* /(https?:\/\/[^\s]+)/g matches
IsUrlMatch(word) == Len(word) >= 2 /\ word[1] \in Schemes
Matches(content) == SelectSeq(content, IsUrlMatch)

\* `new URL(url)` returns (otherwise it throws TypeError)
UrlParses(url) == url[2] \notin InvalidHosts

RECURSIVE TakeUntil(_, _)
TakeUntil(str, stops) ==
    IF str = <<>> \/ Head(str) \in stops THEN <<>>
    ELSE <<Head(str)>> \o TakeUntil(Tail(str), stops)

\* `new URL(url).pathname`
Pathname(url) ==
    LET rest == TakeUntil(SubSeq(url, 3, Len(url)), {"?", "#"})
    IN IF rest = <<>> THEN <<"/">> ELSE rest

\* `pathname.split('.')` has more than one part
HasDot(str) == \E k \in 1..Len(str) : str[k] = "."

\* `parts.pop()`: what follows the last "."
RECURSIVE AfterLastDot(_)
AfterLastDot(str) == IF HasDot(str) THEN AfterLastDot(Tail(str)) ELSE str

\* getUrlExtension of a url that parses: <<extension>>, or <<>> for undefined
GetUrlExtension(url) ==
    LET pathname == Pathname(url)
    IN IF HasDot(pathname) THEN <<ToLowerCase(AfterLastDot(pathname))>> ELSE <<>>

\* `extension ? extensions.includes(extension) : false`
HasExtensionIn(url, extensions) ==
    LET extension == GetUrlExtension(url)
    IN /\ extension # <<>>
       /\ extension[1] # <<>>
       /\ Len(extension[1]) = 1
       /\ extension[1][1] \in extensions

IsImageUrl(url) == HasExtensionIn(url, imageExtensions)
IsVideoUrl(url) == HasExtensionIn(url, videoExtensions)

\* /(?:https?:\/\/)?(?:www\.)?(?:youtube\.com|youtu\.be)\/(?:watch\?v=)?[\w-]+/
\* found somewhere in the url
IsYouTubeUrl(url) ==
    \E k \in 1..Len(url) :
        /\ url[k] \in {"youtube.com", "youtu.be"}
        /\ k + 1 <= Len(url) /\ url[k + 1] = "/"
        /\ \/ k + 2 <= Len(url) /\ url[k + 2] \in WordTokens
           \/ /\ k + 6 <= Len(url)
              /\ SubSeq(url, k + 2, k + 5) = <<"watch", "?", "v", "=">>
              /\ url[k + 6] \in WordTokens

\* The for loop of extractMedia over the remaining matches
RECURSIVE ClassifyMatches(_, _)
ClassifyMatches(matches, media) ==
    IF matches = <<>> THEN [threw |-> FALSE, media |-> media]
    ELSE LET url == Head(matches)
         IN IF ~UrlParses(url) THEN [threw |-> TRUE, media |-> <<>>]
            ELSE ClassifyMatches(Tail(matches),
                    IF IsImageUrl(url) THEN Append(media, [type |-> "image", url |-> url])
                    ELSE IF IsVideoUrl(url) THEN Append(media, [type |-> "video", url |-> url])
                    ELSE IF IsYouTubeUrl(url) THEN Append(media, [type |-> "youtube", url |-> url])
                    ELSE media)

ExtractMedia(content) == ClassifyMatches(Matches(content), <<>>)

RECURSIVE SeqsUpTo(_, _)
SeqsUpTo(S, n) ==
    IF n = 0 THEN {<<>>}
    ELSE LET shorter == SeqsUpTo(S, n - 1)
         IN shorter \cup {Append(q, x) : q \in shorter, x \in S}

Contents == SeqsUpTo(Words, MaxWords)

MediaInit ==
    /\ mediaPc = "idle"
    /\ mediaContent = <<>>
    /\ mediaResult = <<>>

\* extractMedia(event) resolves with the media list
ExtractMediaReturns ==
    \E content \in Contents :
        /\ ~ExtractMedia(content).threw
        /\ mediaPc' = "returned"
        /\ mediaContent' = content
        /\ mediaResult' = ExtractMedia(content).media
        /\ UNCHANGED notMediaVars

\* extractMedia(event) rejects with the TypeError of `new URL`
ExtractMediaThrows ==
    \E content \in Contents :
        /\ ExtractMedia(content).threw
        /\ mediaPc' = "threw"
        /\ mediaContent' = content
        /\ mediaResult' = <<>>
        /\ UNCHANGED notMediaVars

MediaNext ==
    \/ ExtractMediaReturns
    \/ ExtractMediaThrows

-----------------------------------------------------------------------------
(* NoteService.createNoteFromEvent                                         *)

\* Tag lists of the events the relays hold.
NoteTagLists ==
    {<<>>}
    \cup {<< <<"e", x>> >> : x \in EventIds}
    \cup {<< <<"p", "pkX">>, <<"e", x>> >> : x \in EventIds}
    \cup {<< <<"e", x>>, <<"e", y>> >> : x \in EventIds, y \in EventIds}

\* Contents of the events the relays hold: one with an image URL, one with
\* an http(s) substring that is no URL.
NoteContents ==
    { << <<"hello">>, <<"https://", "example.com", "/", "a", ".", "jpg">> >>,
      << <<"https://", "[example]">> >> }

\* `event.tags.find((tag) => tag[0] === 'e')?.[1]` ("" for undefined)
RECURSIVE FirstETag(_)
FirstETag(tags) ==
    IF tags = <<>> THEN ""
    ELSE IF Head(tags)[1] = "e" THEN Head(tags)[2]
    ELSE FirstETag(Tail(tags))

\* `replyEventId && depth === 0`
ShouldFetchReplyAnyDepth(replyEventId, depth) == replyEventId # ""
ShouldFetchReply(replyEventId, depth) == replyEventId # "" /\ depth = 0

NoteInit ==
    /\ notePc = "idle"
    /\ frames = <<>>
    /\ noteStore = [x \in EventIds |-> <<>>]
    /\ noteFetches = <<>>
    /\ noteResult = <<>>
    /\ noteError = ""

Frame(ev, depth) ==
    [event |-> ev, depth |-> depth, pc |-> "fetchProfile", media |-> <<>>, replyParent |-> <<>>]

Top == frames[Len(frames)]
SetTop(f) == [frames EXCEPT ![Len(frames)] = f]

\* new Note({...}) of a frame whose awaits have all resolved
NoteOf(f) ==
    [id |-> f.event.id, text |-> f.event.content, media |-> f.media,
     replyParentNote |-> f.replyParent, replyChildNotes |-> <<>>]

\* A handler (or another caller) calls createNoteFromEvent(event): depth
\* defaults to 0 and the call suspends in fetchProfile.
CreateNoteFromEvent ==
    \E id \in EventIds, tags \in NoteTagLists, content \in NoteContents :
        /\ notePc \in {"idle", "done", "failed"}
        /\ notePc' = "running"
        /\ frames' = <<Frame([id |-> id, tags |-> tags, content |-> content], 0)>>
        /\ noteStore' = [x \in EventIds |->
                            IF x = id THEN <<[tags |-> tags, content |-> content]>> ELSE <<>>]
        /\ noteFetches' = <<>>
        /\ noteResult' = <<>>
        /\ noteError' = ""
        /\ UNCHANGED notNoteVars

\* fetchProfile resolved and extractMedia returned: json is computed, then
\* the reply parent is fetched (first `e` tag, depth 0 only) or reaction
\* aggregation starts.
ProfileResolved ==
    /\ notePc = "running"
    /\ Top.pc = "fetchProfile"
    /\ ~ExtractMedia(Top.event.content).threw
    /\ LET media == ExtractMedia(Top.event.content).media
           replyEventId == FirstETag(Top.event.tags)
       IN IF ShouldFetchReply(replyEventId, Top.depth)
            THEN /\ frames' = SetTop([Top EXCEPT !.pc = "fetchEvent", !.media = media])
                 /\ noteFetches' = Append(noteFetches, replyEventId)
            ELSE /\ frames' = SetTop([Top EXCEPT !.pc = "reactionEvents", !.media = media])
                 /\ noteFetches' = noteFetches
    /\ UNCHANGED <<notePc, noteStore, noteResult, noteError>>
    /\ UNCHANGED notNoteVars

\* fetchProfile resolved and extractMedia threw: nothing catches the
\* TypeError, so every suspended createNoteFromEvent call rejects with it.
MediaClassificationThrows ==
    /\ notePc = "running"
    /\ Top.pc = "fetchProfile"
    /\ ExtractMedia(Top.event.content).threw
    /\ notePc' = "failed"
    /\ noteError' = "TypeError"
    /\ frames' = <<>>
    /\ UNCHANGED <<noteStore, noteFetches, noteResult>>
    /\ UNCHANGED notNoteVars

\* fetchEvent resolved with the event of that id: createNoteFromEvent(replyEvent, 1)
FetchEventResolved ==
    \E tags \in NoteTagLists, content \in NoteContents :
        /\ notePc = "running"
        /\ Top.pc = "fetchEvent"
        /\ LET id == FirstETag(Top.event.tags)
               stored == [tags |-> tags, content |-> content]
           IN /\ noteStore[id] \in {<<>>, <<stored>>}
              /\ noteStore' = [noteStore EXCEPT ![id] = <<stored>>]
              /\ frames' = Append(SetTop([Top EXCEPT !.pc = "parent"]),
                                  Frame([id |-> id, tags |-> tags, content |-> content], 1))
        /\ UNCHANGED <<notePc, noteFetches, noteResult, noteError>>
        /\ UNCHANGED notNoteVars

\* fetchEvent resolved with null: no reply parent, reaction aggregation starts
FetchEventNull ==
    /\ notePc = "running"
    /\ Top.pc = "fetchEvent"
    /\ frames' = SetTop([Top EXCEPT !.pc = "reactionEvents"])
    /\ UNCHANGED <<notePc, noteStore, noteFetches, noteResult, noteError>>
    /\ UNCHANGED notNoteVars

\* createNoteReactionsFromEvent: fetchEvents(likeFilter) resolved
ReactionEventsResolved ==
    /\ notePc = "running"
    /\ Top.pc = "reactionEvents"
    /\ frames' = SetTop([Top EXCEPT !.pc = "repostEvents"])
    /\ UNCHANGED <<notePc, noteStore, noteFetches, noteResult, noteError>>
    /\ UNCHANGED notNoteVars

\* fetchEvents(repostFilter) resolved
RepostEventsResolved ==
    /\ notePc = "running"
    /\ Top.pc = "repostEvents"
    /\ frames' = SetTop([Top EXCEPT !.pc = "zapsAmount"])
    /\ UNCHANGED <<notePc, noteStore, noteFetches, noteResult, noteError>>
    /\ UNCHANGED notNoteVars

\* calculateZapsAmount resolved: the Note is constructed and returned, to the
\* caller or into replyParentNote of the suspended outer call.
ZapsAmountResolved ==
    /\ notePc = "running"
    /\ Top.pc = "zapsAmount"
    /\ IF Len(frames) = 1
         THEN /\ notePc' = "done"
              /\ noteResult' = <<NoteOf(Top)>>
              /\ frames' = <<>>
         ELSE /\ notePc' = notePc
              /\ noteResult' = noteResult
              /\ frames' = LET outer == frames[Len(frames) - 1]
                           IN Append(SubSeq(frames, 1, Len(frames) - 2),
                                     [outer EXCEPT !.replyParent = <<NoteOf(Top)>>,
                                                   !.pc = "reactionEvents"])
    /\ UNCHANGED <<noteStore, noteFetches, noteError>>
    /\ UNCHANGED notNoteVars

\* Any awaited collaborator call rejects: the rejection propagates through
\* every suspended createNoteFromEvent call.
NoteStepRejects ==
    /\ notePc = "running"
    /\ Top.pc \in {"fetchProfile", "fetchEvent", "reactionEvents", "repostEvents", "zapsAmount"}
    /\ notePc' = "failed"
    /\ noteError' = "Rejected"
    /\ frames' = <<>>
    /\ UNCHANGED <<noteStore, noteFetches, noteResult>>
    /\ UNCHANGED notNoteVars

\* The steps that happen once the awaited collaborator call returns
NoteCollaboratorReturns ==
    \/ ProfileResolved
    \/ MediaClassificationThrows
    \/ FetchEventResolved
    \/ FetchEventNull
    \/ ReactionEventsResolved
    \/ RepostEventsResolved
    \/ ZapsAmountResolved
    \/ NoteStepRejects

NoteNext ==
    \/ CreateNoteFromEvent
    \/ ProfileResolved
    \/ MediaClassificationThrows
    \/ FetchEventResolved
    \/ FetchEventNull
    \/ ReactionEventsResolved
    \/ RepostEventsResolved
    \/ ZapsAmountResolved
    \/ NoteStepRejects

-----------------------------------------------------------------------------
(* NoteService.createNoteReactionsFromEvent, with the data that            *)
(* createNoteFromEvent above leaves opaque                                 *)

\* Reaction events, repost events and zap amounts one fetch resolves with.
MaxReactionEvents == 2
MaxReposts == 2
MaxZapsAmount == 1

\* A string is the sequence of its code points.  The code points used:
\* "+", ":", a letter, a digit, a space, U+2764 (heavy black heart, one
\* UTF-16 code unit) and U+1F44D (thumbs up, two UTF-16 code units).
CodePoints == {"+", ":", "s", "5", " ", "U+2764", "U+1F44D"}

\* UTF-16 code units of a code point
CodeUnits(c) == IF c = "U+1F44D" THEN 2 ELSE 1

\* String.prototype.length
RECURSIVE JsLength(_)
JsLength(str) == IF str = <<>> THEN 0 ELSE CodeUnits(Head(str)) + JsLength(Tail(str))

\* Code points with the Unicode property Emoji (the digits have it)
HasEmojiProperty(c) == c \in {"5", "U+2764", "U+1F44D"}

\* `content.match(/\p{Emoji}/u)`: some code point has the property
MatchesEmoji(str) == \E k \in 1..Len(str) : HasEmojiProperty(str[k])

\* String.prototype.trim
RECURSIVE TrimStart(_)
TrimStart(str) == IF str # <<>> /\ Head(str) = " " THEN TrimStart(Tail(str)) ELSE str
RECURSIVE TrimEnd(_)
TrimEnd(str) ==
    IF str # <<>> /\ str[Len(str)] = " " THEN TrimEnd(SubSeq(str, 1, Len(str) - 1)) ELSE str
Trim(str) == TrimEnd(TrimStart(str))

StartsWith(str, c) == str # <<>> /\ str[1] = c
EndsWith(str, c) == str # <<>> /\ str[Len(str)] = c

\* The branches of the loop body, for the trimmed content
IsLike(content) == content = <<"+">> \/ content = <<>>
IsCustomReaction(content) ==
    \/ StartsWith(content, ":") /\ EndsWith(content, ":")
    \/ JsLength(content) = 1 /\ MatchesEmoji(content)

\* `customReactions[content] = (customReactions[content] || 0) + 1`
IncrementTwice(customReactions, content) ==
    [k \in DOMAIN customReactions \cup {content} |->
        IF k = content
          THEN (IF content \in DOMAIN customReactions THEN customReactions[content] ELSE 0) + 2
          ELSE customReactions[k]]
Increment(customReactions, content) ==
    [k \in DOMAIN customReactions \cup {content} |->
        IF k = content
          THEN (IF content \in DOMAIN customReactions THEN customReactions[content] ELSE 0) + 1
          ELSE customReactions[k]]

\* The for loop over reactionEvents, from the counters in `acc`
RECURSIVE CountReactions(_, _)
CountReactions(events, acc) ==
    IF events = <<>> THEN acc
    ELSE LET content == Trim(Head(events))
         IN CountReactions(Tail(events),
               IF IsLike(content)
                 THEN [acc EXCEPT !.likesCount = @ + 1]
               ELSE IF IsCustomReaction(content)
                 THEN [acc EXCEPT !.customReactions = Increment(@, content)]
               ELSE acc)

\* Contents of the reaction events the relays hold:
\* "+", "", " + ", " ", ":s:", "ss", "5", ":", U+2764, U+1F44D
ReactionContents ==
    {<<"+">>, <<>>, <<" ", "+", " ">>, <<" ">>, <<":", "s", ":">>, <<"s", "s">>,
     <<"5">>, <<":">>, <<"U+2764">>, <<"U+1F44D">>}

NoCustomReactions == [k \in {} |-> 0]

\* What fetchEvents(repostFilter) may resolve with: the matching events,
\* deduplicated by id.
RepostEventIds == 1..MaxReposts
RepostEventSets == SUBSET RepostEventIds

\* `repostEvents.length`
RepostsCount(repostEvents) == Cardinality(repostEvents)

RxInit ==
    /\ rxPc = "idle"
    /\ rxIssued = <<>>
    /\ rxReactionEvents = <<>>
    /\ rxLikesCount = 0
    /\ rxCustomReactions = NoCustomReactions
    /\ rxRepostEvents = {}
    /\ rxRepostsCount = 0
    /\ rxZapsAmount = 0
    /\ rxResult = <<>>

\* createNoteReactionsFromEvent up to its first await: the counters are
\* initialized and fetchEvents(likeFilter) is issued.
CreateNoteReactionsFromEvent ==
    /\ rxPc \in {"idle", "done", "failed"}
    /\ rxPc' = "reactionEvents"
    /\ rxIssued' = <<"reactionEvents">>
    /\ rxReactionEvents' = <<>>
    /\ rxLikesCount' = 0
    /\ rxCustomReactions' = NoCustomReactions
    /\ rxRepostEvents' = {}
    /\ rxRepostsCount' = 0
    /\ rxZapsAmount' = 0
    /\ rxResult' = <<>>
    /\ UNCHANGED notRxVars

\* fetchEvents(likeFilter) resolved: the loop classifies every reaction
\* event, then fetchEvents(repostFilter) is issued.
RxReactionEventsResolved ==
    \E events \in SeqsUpTo(ReactionContents, MaxReactionEvents) :
        /\ rxPc = "reactionEvents"
        /\ rxReactionEvents' = events
        /\ LET counted == CountReactions(events, [likesCount |-> rxLikesCount,
                                                  customReactions |-> rxCustomReactions])
           IN /\ rxLikesCount' = counted.likesCount
              /\ rxCustomReactions' = counted.customReactions
        /\ rxIssued' = Append(rxIssued, "repostEvents")
        /\ rxPc' = "repostEvents"
        /\ UNCHANGED <<rxRepostEvents, rxRepostsCount, rxZapsAmount, rxResult>>
        /\ UNCHANGED notRxVars

\* fetchEvents(repostFilter) resolved: repostsCount is the number of the
\* events, then calculateZapsAmount is issued.
RxRepostEventsResolved ==
    \E repostEvents \in RepostEventSets :
        /\ rxPc = "repostEvents"
        /\ rxRepostEvents' = repostEvents
        /\ rxRepostsCount' = RepostsCount(repostEvents)
        /\ rxIssued' = Append(rxIssued, "zapsAmount")
        /\ rxPc' = "zapsAmount"
        /\ UNCHANGED <<rxReactionEvents, rxLikesCount, rxCustomReactions, rxZapsAmount,
                       rxResult>>
        /\ UNCHANGED notRxVars

\* calculateZapsAmount resolved: new NoteReactions({...}) is returned
RxZapsAmountResolved ==
    \E amount \in 0..MaxZapsAmount :
        /\ rxPc = "zapsAmount"
        /\ rxZapsAmount' = amount
        /\ rxResult' = <<[likesCount |-> rxLikesCount,
                          repostsCount |-> rxRepostsCount,
                          zapsAmount |-> amount,
                          customReactions |-> rxCustomReactions]>>
        /\ rxPc' = "done"
        /\ UNCHANGED <<rxIssued, rxReactionEvents, rxLikesCount, rxCustomReactions,
                       rxRepostEvents, rxRepostsCount>>
        /\ UNCHANGED notRxVars

\* The awaited fetch rejects: the call rejects
RxStepRejects ==
    /\ rxPc \in {"reactionEvents", "repostEvents", "zapsAmount"}
    /\ rxPc' = "failed"
    /\ UNCHANGED <<rxIssued, rxReactionEvents, rxLikesCount, rxCustomReactions,
                   rxRepostEvents, rxRepostsCount, rxZapsAmount, rxResult>>
    /\ UNCHANGED notRxVars

RxNext ==
    \/ CreateNoteReactionsFromEvent
    \/ RxReactionEventsResolved
    \/ RxRepostEventsResolved
    \/ RxZapsAmountResolved
    \/ RxStepRejects

-----------------------------------------------------------------------------
Init ==
    /\ RetryInit
    /\ ConnectInit
    /\ SubInit
    /\ ZapInit
    /\ NoteInit
    /\ RxInit
    /\ MediaInit

Next ==
    \/ RetryNext
    \/ ConnectNext
    \/ SubNext
    \/ ZapNext
    \/ NoteNext
    \/ RxNext
    \/ MediaNext

Spec == Init /\ [][Next]_vars

SpecRetry == Init /\ [][RetryNext]_vars
\* The setTimeout timers of the race and of delay() always fire; the wrapped
\* operation need not ever complete.
SpecRetryFair == Init /\ [][RetryNext]_vars /\ WF_vars(OpTimeout) /\ WF_vars(DelayElapsed)
SpecConnect == Init /\ [][ConnectNext]_vars
SpecSub == Init /\ [][SubNext]_vars
SpecZap == Init /\ [][ZapNext]_vars
SpecNote == Init /\ [][NoteNext]_vars
SpecNoteFair == Init /\ [][NoteNext]_vars /\ WF_vars(NoteCollaboratorReturns)
SpecReactions == Init /\ [][RxNext]_vars
SpecMedia == Init /\ [][MediaNext]_vars

-----------------------------------------------------------------------------
(* Properties of the retry wrapper (SpecRetry)                             *)

\* C1: an operation that fails on attempts 1 and 2 and succeeds on attempt 3
\* makes the wrapper return that value after exactly 3 invocations and 2
\* delays; an operation that fails on every attempt is invoked exactly 3
\* times (never a 4th), with exactly 2 delays, and the wrapper rejects with
\* the error of the 3rd attempt.
RetryThreeAttempts ==
    /\ Len(opStatus) <= 3
    /\ delays <= 2
    /\ (/\ Len(attemptOutcome) = 3
        /\ ~attemptOutcome[1].ok /\ ~attemptOutcome[2].ok /\ attemptOutcome[3].ok)
         => /\ fwrPc = "resolved"
            /\ fwrResult = <<Fulfilled(attemptOutcome[3].val)>>
            /\ Len(opStatus) = 3
            /\ delays = 2
    /\ (/\ Len(attemptOutcome) >= 3
        /\ ~attemptOutcome[1].ok /\ ~attemptOutcome[2].ok /\ ~attemptOutcome[3].ok)
         => /\ fwrPc = "rejected"
            /\ fwrResult # <<>>
            /\ ~fwrResult[1].ok
            /\ fwrResult[1].errKind = attemptOutcome[3].errKind
            /\ Len(opStatus) = 3
            /\ delays = 2

RetryThirdAttemptSucceeded ==
    /\ fwrPc = "resolved"
    /\ Len(attemptOutcome) = 3
    /\ attemptOutcome[1].errKind \in OpErrors
    /\ delays = 2

RunningInvocations == {i \in 1..Len(opStatus) : opStatus[i] = "running"}

\* C2 as stated: at most one invocation of the wrapped operation is running
\* at any time, also after a timeout abandoned an earlier attempt.
AtMostOneInvocationRunning == Cardinality(RunningInvocations) <= 1

\* C2 amended: invocations are started one after another, each only after
\* the previous attempt has failed; an invocation that runs beside a later
\* one is one its timer abandoned.
AttemptsStartSequentially ==
    /\ Len(attemptOutcome) >= Len(opStatus) - 1
    /\ \A i \in 1..Len(opStatus) :
          /\ i < Len(opStatus) => (i <= Len(attemptOutcome) /\ ~attemptOutcome[i].ok)
          /\ (i \in RunningInvocations /\ i <= Len(attemptOutcome))
                => attemptOutcome[i] = TimeoutError
    /\ fwrPc = "racing" <=> Len(attemptOutcome) = Len(opStatus) - 1

AbandonedInvocationOverlaps ==
    /\ fwrPc = "racing"
    /\ Len(opStatus) = 2
    /\ RunningInvocations = {1, 2}

\* C9 as stated: when all attempts fail the wrapper rejects with a
\* RetriesExhausted error that has the last underlying error as its cause.
RetriesExhaustedSurfaced ==
    fwrPc = "rejected" =>
        /\ fwrResult[1].errKind = "RetriesExhausted"
        /\ fwrResult[1].errCause = attemptOutcome[Len(attemptOutcome)].errKind

\* C9 amended: when all attempts fail the wrapper rejects with the last
\* underlying error itself (the operation's error or the timeout error),
\* not wrapped.
LastErrorSurfacedUnwrapped ==
    fwrPc = "rejected" =>
        /\ Len(attemptOutcome) = MaxRetries
        /\ fwrResult = <<attemptOutcome[MaxRetries]>>
        /\ fwrResult[1].errKind \in OpErrors \cup {TimeoutError.errKind}
        /\ fwrResult[1].errCause = ""

RetriesExhaustedByOperationError ==
    /\ fwrPc = "rejected"
    /\ attemptOutcome[MaxRetries].errKind \in OpErrors

\* C21: the retry wrapper always settles; when the operation completes on no
\* attempt it rejects with the timeout error of the 3rd attempt after exactly
\* 3 per-attempt timeouts and 2 delays, and it never stays pending forever.
RetryAlwaysSettles ==
    /\ []((/\ fwrPc = "rejected"
           /\ \A k \in 1..Len(attemptOutcome) : attemptOutcome[k] = TimeoutError)
            => /\ attemptOutcome = <<TimeoutError, TimeoutError, TimeoutError>>
               /\ Len(opStatus) = 3
               /\ delays = 2
               /\ fwrResult = <<TimeoutError>>)
    /\ (fwrPc \in {"racing", "delaying"}) ~> (fwrPc \in {"resolved", "rejected"})

RejectedAfterThreeTimeouts ==
    /\ fwrPc = "rejected"
    /\ opStatus = <<"running", "running", "running">>
    /\ attemptOutcome = <<TimeoutError, TimeoutError, TimeoutError>>
    /\ delays = 2

\* C18: once an attempt has timed out, the later completion of the timed-out
\* operation is ignored: it changes neither what the wrapper returns nor the
\* number of attempts and delays, nor (in getUserWithProfile) any state the
\* caller can observe after the wrapper has settled.
LateCompletionIgnored ==
    [][(fwrPc = "resolved" /\ fwrPc' = "resolved") =>
          /\ fwrResult' = fwrResult
          /\ attemptOutcome' = attemptOutcome
          /\ delays' = delays
          /\ userProfile' = userProfile]_vars

-----------------------------------------------------------------------------
(* Properties of connect (SpecConnect)                                     *)

\* C4: over any interleaving of connect() calls the session is initialized
\* at most once, the cached session is never overwritten, and every
\* successful connect() returns the same session.
ConnectIsSingleton ==
    /\ sessionsCreated <= 1
    /\ Cardinality(returnedSessions) <= 1

ConnectAwaitOrder ==
    {<<"blockUntilReady", "ndkConnect">>, <<"ndkConnect", "signerUser">>,
     <<"signerUser", "fetchProfile">>, <<"fetchProfile", "returned">>}

\* C22: the session is cached only by a call whose signer handshake, relay
\* connection and profile fetch have all succeeded; a call in which a step
\* fails rejects and leaves the singleton as it was, and a call that finds
\* the singleton unset goes through the full initialization.
SessionCachedOnlyWhenInitialized ==
    [][/\ nostrClient' # nostrClient =>
             \E c \in Callers : /\ cPc[c] = "fetchProfile"
                                /\ cPc'[c] = "returned"
                                /\ nostrClient' # 0
                                /\ cRet'[c] = nostrClient'
       /\ \A c \in Callers :
             cPc'[c] # cPc[c] =>
                \/ /\ cPc[c] \in {"idle", "returned", "failed"}
                   /\ IF nostrClient = 0
                        THEN cPc'[c] = "blockUntilReady" /\ cRet'[c] = 0
                        ELSE cPc'[c] = "returned" /\ cRet'[c] = nostrClient
                \/ <<cPc[c], cPc'[c]>> \in ConnectAwaitOrder
                \/ /\ cPc'[c] = "failed"
                   /\ cPc[c] \in {"blockUntilReady", "ndkConnect", "signerUser", "fetchProfile"}
                   /\ nostrClient' = nostrClient]_vars

RetryAfterFailedConnect ==
    \E c \in Callers :
        /\ cPc[c] = "blockUntilReady"
        /\ connectCalls = 2
        /\ \A d \in Callers \ {c} : cPc[d] = "idle"
        /\ nostrClient = 0

-----------------------------------------------------------------------------
(* Properties of subscriptions (SpecSub)                                   *)

\* C5 as stated: once unsubscribe has been called onNote is never invoked
\* again, also not for events whose note assembly was in flight.
NoOnNoteAfterUnsubscribe ==
    \A k \in 1..Len(onNoteLog) : ~onNoteLog[k].afterUnsub

\* C5 amended: once unsubscribe has been called no further event is handed
\* to the handler, so no new assembly starts; onNote is invoked only for
\* events delivered before the call, at most once each.
NoNewDeliveryAfterUnsubscribe ==
    /\ \A i \in 1..Len(relayLog) :
          relayLog[i].afterUnsub => (~relayLog[i].emitted /\ assembly[i] = "none")
    /\ \A k \in 1..Len(onNoteLog) :
          /\ ~relayLog[onNoteLog[k].idx].afterUnsub
          /\ \A j \in 1..Len(onNoteLog) : onNoteLog[j].idx = onNoteLog[k].idx => j = k

InFlightNoteAfterUnsubscribe ==
    /\ \E k \in 1..Len(onNoteLog) : onNoteLog[k].afterUnsub
    /\ \E i \in 1..Len(relayLog) : relayLog[i].afterUnsub

\* C10: a subscription opened with persistent=false delivers nothing after
\* end-of-stored-events; one opened with persistent=true, or without the
\* flag, has every event delivered that the relays send before unsubscribe
\* (a repeated copy of an event already sent aside).
PersistentFlagControlsDelivery ==
    subState # "none" =>
        /\ subCloseOnEose = (subIsForever = "false")
        /\ \A i \in 1..Len(relayLog) :
              /\ (subIsForever = "false" /\ relayLog[i].afterEose) => ~relayLog[i].emitted
              /\ (subIsForever # "false" /\ ~relayLog[i].afterUnsub /\ ~relayLog[i].duplicate)
                    => relayLog[i].emitted
              /\ (~relayLog[i].afterEose /\ ~relayLog[i].afterUnsub /\ ~relayLog[i].duplicate)
                    => relayLog[i].emitted

NonPersistentDropsAfterEose ==
    /\ subIsForever = "false"
    /\ ~unsubscribed
    /\ \E i \in 1..Len(relayLog) :
          relayLog[i].afterEose /\ ~relayLog[i].duplicate /\ ~relayLog[i].emitted
    /\ \E i \in 1..Len(relayLog) : ~relayLog[i].afterEose /\ relayLog[i].emitted

\* C23: onNote is invoked for notes in the order in which their source
\* events were delivered by the relay subscription, however long each
\* event's note assembly takes.
OnNoteInDeliveryOrder ==
    \A j \in 1..Len(onNoteLog), k \in 1..Len(onNoteLog) :
        j < k => onNoteLog[j].idx < onNoteLog[k].idx

-----------------------------------------------------------------------------
(* Properties of the zap flow (SpecZap)                                    *)

\* The JSON of the `nostr` query parameter of the callback URL
NostrParamJson == zapEndpoint[1].searchParams[2][2][2]

\* C3: the zap request JSON in the `nostr` query parameter is the signed
\* request: it carries the signature the signer returned for the event, and
\* the event id.
NostrParamIsSigned ==
    zapEndpoint # <<>> =>
        /\ \E k \in 1..Len(NostrParamJson) :
              NostrParamJson[k][1] = "sig" /\ NostrParamJson[k][2] = zapSig
        /\ \E k \in 1..Len(NostrParamJson) : NostrParamJson[k][1] = "id"

CallbackGetIssued == "callbackGET" \in {zapSteps[k] : k \in 1..Len(zapSteps)}
BoundsErrors == {"NostrMinSendableConstraintError", "NostrMaxSendableConstraintError"}

\* C7 as stated: when the amount is below the provider's minSendable or
\* above its maxSendable the call fails with the Min/Max error and issues no
\* GET to the callback URL.
OutOfBoundsFailsWithBoundsError ==
    (/\ zapLnurlPay # <<>>
     /\ \/ zapSat * 1000 < zapLnurlPay[1].minSendable
        \/ zapSat * 1000 > zapLnurlPay[1].maxSendable)
        => /\ zapPc = "failed"
           /\ zapError \in BoundsErrors
           /\ ~CallbackGetIssued

\* C7 amended: when the amount is below the provider's non-zero minSendable
\* or above its non-zero maxSendable the call fails without any GET to the
\* callback URL; it fails with the Min/Max error when the provider's
\* metadata advertised Nostr support and a callback URL, and with the error
\* of the earlier check otherwise.
OutOfDeclaredBoundsNeverCallsBack ==
    (/\ zapLnurlPay # <<>>
     /\ \/ (zapLnurlPay[1].minSendable # 0 /\ zapSat * 1000 < zapLnurlPay[1].minSendable)
        \/ (zapLnurlPay[1].maxSendable # 0 /\ zapSat * 1000 > zapLnurlPay[1].maxSendable))
        => /\ zapPc = "failed"
           /\ ~CallbackGetIssued
           /\ zapEndpoint = <<>>
           /\ IF ~zapLnurlPay[1].allowsNostr \/ zapLnurlPay[1].nostrPubkey = ""
                THEN zapError = "NostrRequestLnurlPayError"
              ELSE IF zapLnurlPay[1].callback = ""
                THEN zapError = "NostrGetZapEndpointCallbackUrlError"
              ELSE zapError \in BoundsErrors

AboveMaxSendableRejected ==
    /\ zapPc = "failed"
    /\ zapError = "NostrMaxSendableConstraintError"
    /\ zapLnurlPay # <<>>
    /\ zapSat * 1000 > zapLnurlPay[1].maxSendable
    /\ zapSteps = <<"resolve", "sign", "metadataGET">>

\* C19: with a = satoshis * 1000 the call fails with the Min error iff the
\* provider declares a non-zero minSendable and a < minSendable, otherwise
\* with the Max error iff it declares a non-zero maxSendable and
\* a > maxSendable; an amount equal to a bound is accepted and the Min error
\* takes precedence.
BoundsCheckedExactly ==
    zapLnurlPay # <<>> =>
        LET a == zapSat * 1000
            belowMin == zapLnurlPay[1].minSendable # 0 /\ a < zapLnurlPay[1].minSendable
            aboveMax == zapLnurlPay[1].maxSendable # 0 /\ a > zapLnurlPay[1].maxSendable
        IN /\ zapError = "NostrMinSendableConstraintError" <=> belowMin
           /\ zapError = "NostrMaxSendableConstraintError" <=> (~belowMin /\ aboveMax)

\* C19 amended: the same, for the calls whose provider metadata advertised
\* Nostr support and a callback URL; an amount within the bounds (equal to a
\* bound included) goes on to the callback GET.
BoundsCheckedExactlyWhenReached ==
    (/\ zapLnurlPay # <<>>
     /\ zapLnurlPay[1].allowsNostr
     /\ zapLnurlPay[1].nostrPubkey # ""
     /\ zapLnurlPay[1].callback # "") =>
        LET a == zapSat * 1000
            belowMin == zapLnurlPay[1].minSendable # 0 /\ a < zapLnurlPay[1].minSendable
            aboveMax == zapLnurlPay[1].maxSendable # 0 /\ a > zapLnurlPay[1].maxSendable
        IN /\ zapError = "NostrMinSendableConstraintError" <=> belowMin
           /\ zapError = "NostrMaxSendableConstraintError" <=> (~belowMin /\ aboveMax)
           /\ (~belowMin /\ ~aboveMax) =>
                 (zapEndpoint # <<>> /\ zapSteps = <<"resolve", "sign", "metadataGET", "callbackGET">>)

AmountEqualToBothBoundsAccepted ==
    /\ zapPc = "callback"
    /\ zapSat > 0
    /\ zapLnurlPay[1].minSendable = zapSat * 1000
    /\ zapLnurlPay[1].maxSendable = zapSat * 1000

ZapStepOrder == <<"resolve", "sign", "metadataGET", "callbackGET">>

\* C8: in one sendZapRequest call address resolution, signing, metadata GET
\* and callback GET are each executed at most once and in that order; when a
\* step fails the call fails with no later step executed; a failed address
\* resolution fails the call with UnknownUser before the signer or any HTTP
\* endpoint is contacted.
ZapFailsFast ==
    /\ Len(zapSteps) <= Len(ZapStepOrder)
    /\ zapSteps = SubSeq(ZapStepOrder, 1, Len(zapSteps))
    /\ zapPc = "resolving" => Len(zapSteps) = 1
    /\ zapPc = "signing" => Len(zapSteps) = 2
    /\ zapPc = "metadata" => Len(zapSteps) = 3
    /\ zapPc \in {"callback", "done"} => Len(zapSteps) = 4
    /\ zapPc = "failed" =>
          Len(zapSteps) =
             CASE zapError = "NostrUnknownUserError" -> 1
               [] zapError = "SignerError" -> 2
               [] zapError \in {"NostrRequestLnurlPayError",
                                "NostrGetZapEndpointCallbackUrlError"} \cup BoundsErrors -> 3
               [] OTHER -> 4
    /\ (zapPc \notin {"idle", "resolving"} /\ zapTo = Absent)
          => /\ zapPc = "failed"
             /\ zapError = "NostrUnknownUserError"
             /\ zapSteps = <<"resolve">>

UnknownUserRejected ==
    /\ zapPc = "failed"
    /\ zapTo = Absent
    /\ zapError = "NostrUnknownUserError"

\* C15: the zap request's id is computed over the request whose tags are
\* exactly [relays, amount, lnurl, p]; the `e` tag holding that id is appended
\* afterwards, so the `e` tag of the returned request always equals the id of
\* the request without its `e` tag.
ZapIdExcludesSelfReference ==
    zapEvent # <<>> =>
        LET ev == zapEvent[1]
            withoutE == [ev EXCEPT !.tags = SubSeq(@, 1, 4)]
        IN /\ Len(ev.tags) = 5
           /\ <<ev.tags[1][1], ev.tags[2][1], ev.tags[3][1], ev.tags[4][1]>>
                 = <<"relays", "amount", "lnurl", "p">>
           /\ ev.tags[5] = <<"e", GenerateEventId(withoutE)>>
           /\ GenerateEventId(withoutE) # GenerateEventId(ev)

ZapRequestReturnedToSigner ==
    /\ zapPc = "signing"
    /\ zapEvent # <<>>
    /\ zapEvent[1].tags[5][1] = "e"

\* C25: the zap request always has exactly the five tags relays, amount,
\* lnurl, p, e in that order, so the positional reads are consistent: the
\* amount parameter is satoshis * 1000 and the request's amount tag, the
\* lnurl parameter is the request's lnurl tag, and the id read from the fifth
\* tag is the computed event id.
ZapPositionalReadsConsistent ==
    zapEvent # <<>> =>
        LET tags == zapEvent[1].tags
            withoutE == [zapEvent[1] EXCEPT !.tags = SubSeq(@, 1, 4)]
        IN /\ Len(tags) = 5
           /\ [k \in 1..5 |-> tags[k][1]] = <<"relays", "amount", "lnurl", "p", "e">>
           /\ tags[2][2] = DecStr(zapSat * 1000)
           /\ tags[3][2] = ToBech32EncodedLnurl(ToLnurlPayUrl(zapNip05))
           /\ zapMetadata # <<>> => zapMetadata[1].id = GenerateEventId(withoutE)
           /\ zapEndpoint # <<>> =>
                 LET searchParams == zapEndpoint[1].searchParams
                 IN /\ searchParams[1] = <<"amount", DecStr(zapSat * 1000)>>
                    /\ searchParams[1][2] = tags[2][2]
                    /\ searchParams[3] = <<"lnurl", tags[3][2]>>

ZapEndpointBuilt ==
    /\ zapPc = "callback"
    /\ zapSat = 2
    /\ zapMetadata # <<>>
    /\ zapEndpoint # <<>>
    /\ zapEndpoint[1].searchParams[1] = <<"amount", <<2, 0, 0, 0>> >>

\* C14: sendZapRequest resolves only when the callback response has status
\* "OK" and a non-empty pr, and then with that pr, verify and successAction;
\* no body or another status fails with NostrCallZapEndpointError; status
\* "OK" without pr fails with NostrInvoiceNotFoundError.
ZapResultFollowsCallback ==
    /\ zapReturn # <<>> => zapResponse # <<>>
    /\ zapResponse # <<>> =>
          LET data == zapResponse[1]
          IN /\ (data = <<>> \/ (data # <<>> /\ data[1].status # "OK")) =>
                   (zapPc = "failed" /\ zapError = "NostrCallZapEndpointError" /\ zapReturn = <<>>)
             /\ (data # <<>> /\ data[1].status = "OK" /\ data[1].pr = "") =>
                   (zapPc = "failed" /\ zapError = "NostrInvoiceNotFoundError" /\ zapReturn = <<>>)
             /\ (data # <<>> /\ data[1].status = "OK" /\ data[1].pr # "") =>
                   /\ zapPc = "done"
                   /\ zapError = ""
                   /\ zapReturn = <<[pr |-> data[1].pr, verify |-> data[1].verify,
                                     successAction |-> data[1].successAction]>>

InvoiceMissingRejected ==
    /\ zapResponse # <<>>
    /\ zapResponse[1] # <<>>
    /\ zapResponse[1][1].status = "OK"
    /\ zapResponse[1][1].pr = ""
    /\ zapError = "NostrInvoiceNotFoundError"

-----------------------------------------------------------------------------
(* Properties of note assembly (SpecNote)                                  *)

\* C6: createNoteFromEvent(event) never goes past one reply level: the Note
\* has a replyParentNote only if the event has an `e` tag, and that parent
\* Note has no replyParentNote even when the parent event has an `e` tag.
ReplyDepthAtMostOne ==
    /\ Len(frames) <= 2
    /\ Len(noteFetches) <= 1
    /\ \A i \in 1..Len(frames) :
          /\ frames[i].depth = i - 1
          /\ frames[i].depth = 1 =>
                (frames[i].replyParent = <<>> /\ frames[i].pc \notin {"fetchEvent", "parent"})
    /\ noteResult # <<>> =>
          LET note == noteResult[1]
          IN note.replyParentNote # <<>> =>
                /\ FirstETag(noteStore[note.id][1].tags) # ""
                /\ note.replyParentNote[1].id = FirstETag(noteStore[note.id][1].tags)
                /\ note.replyParentNote[1].replyParentNote = <<>>

ThreeHopChainAssembled ==
    /\ noteResult # <<>>
    /\ noteResult[1].replyParentNote # <<>>
    /\ LET note == noteResult[1]
           parent == note.replyParentNote[1]
       IN /\ parent.id # note.id
          /\ FirstETag(noteStore[parent.id][1].tags) \notin {"", note.id, parent.id}

\* C17: provided every collaborator call returns, createNoteFromEvent(event)
\* always terminates and fetches at most one reply-parent event, without
\* retry, also when the reply chain is cyclic or long.
AssemblyTerminatesWithOneFetch ==
    /\ [](Len(noteFetches) <= 1 /\ Len(frames) <= 2)
    /\ (notePc = "running") ~> (notePc \in {"done", "failed"})

CyclicChainAssembled ==
    /\ notePc = "done"
    /\ noteResult # <<>>
    /\ noteResult[1].replyParentNote # <<>>
    /\ LET note == noteResult[1]
           parent == note.replyParentNote[1]
       IN /\ parent.id # note.id
          /\ FirstETag(noteStore[parent.id][1].tags) = note.id
          /\ noteFetches = <<parent.id>>

\* C12: note assembly never fails because of media classification: a
\* malformed http(s) substring is treated as having no extension and
\* createNoteFromEvent still produces a Note instead of propagating an error.
AssemblySurvivesMalformedUrl ==
    notePc = "failed" => noteError # "TypeError"

\* C13: fetchEvent never resolves with an absent value, so assembling an
\* event that carries an `e` tag never yields a Note with replyParentNote
\* unset: a reply parent that cannot be fetched makes the assembly fail.
UnfetchedParentFailsAssembly ==
    noteResult # <<>> =>
        LET note == noteResult[1]
        IN FirstETag(noteStore[note.id][1].tags) # "" => note.replyParentNote # <<>>

-----------------------------------------------------------------------------
(* Properties of reaction aggregation (SpecReactions)                      *)

\* The classification C11 states, for a trimmed content: a like is "+" or
\* ""; a custom reaction is a content wrapped in colons or one emoji
\* character; a digit and a lone ":" are neither.
EmojiCharacters == {"U+2764", "U+1F44D"}
StatedLike(content) == content = <<"+">> \/ content = <<>>
StatedCustom(content) ==
    \/ Len(content) >= 2 /\ content[1] = ":" /\ content[Len(content)] = ":"
    \/ Len(content) = 1 /\ content[1] \in EmojiCharacters
Occurrences(events, P(_)) == Cardinality({k \in 1..Len(events) : P(Trim(events[k]))})

\* C11: "+" and "" each increment likesCount; content wrapped in colons or
\* consisting of a single emoji character increments customReactions[content];
\* any other content (a word, a digit, a lone ":") changes neither.
ReactionsClassifiedAsStated ==
    rxPc \in {"repostEvents", "zapsAmount", "done"} =>
        /\ rxLikesCount = Occurrences(rxReactionEvents, StatedLike)
        /\ DOMAIN rxCustomReactions =
              {Trim(rxReactionEvents[k]) : k \in 1..Len(rxReactionEvents)}
                 \cap {c \in {Trim(x) : x \in ReactionContents} : ~StatedLike(c) /\ StatedCustom(c)}
        /\ \A c \in DOMAIN rxCustomReactions :
              rxCustomReactions[c] =
                 Cardinality({k \in 1..Len(rxReactionEvents) : Trim(rxReactionEvents[k]) = c})

\* C20: the reaction, repost and zap fetches are all started before the
\* result of any of them is awaited.
ReactionFetchesIssuedTogether ==
    rxPc \in {"reactionEvents", "repostEvents", "zapsAmount"} =>
        {rxIssued[k] : k \in 1..Len(rxIssued)} = {"reactionEvents", "repostEvents", "zapsAmount"}


RECURSIVE SumOver(_, _)
SumOver(f, keys) ==
    IF keys = {} THEN 0
    ELSE LET k == CHOOSE x \in keys : TRUE
         IN f[k] + SumOver(f, keys \ {k})

\* C24: in every NoteReactions each fetched reaction event contributes to at
\* most one counter: likesCount plus the sum of the customReactions values is
\* at most the number of fetched reaction events, every customReactions value
\* is at least 1, and repostsCount is the number of fetched repost events.
ReactionCountsBounded ==
    rxResult # <<>> =>
        LET r == rxResult[1]
        IN /\ r.likesCount + SumOver(r.customReactions, DOMAIN r.customReactions)
                 <= Len(rxReactionEvents)
           /\ \A c \in DOMAIN r.customReactions : r.customReactions[c] >= 1
           /\ r.repostsCount = Cardinality(rxRepostEvents)

OneCountedOneIgnored ==
    /\ rxPc = "done"
    /\ Len(rxReactionEvents) = 2
    /\ rxResult[1].likesCount = 0
    /\ DOMAIN rxResult[1].customReactions = {<<":", "s", ":">>}
    /\ rxResult[1].customReactions[<<":", "s", ":">>] = 1
    /\ rxResult[1].repostsCount = 2

-----------------------------------------------------------------------------
(* Properties of media classification (SpecMedia)                          *)

\* The classification C16 states: by the extension the URL ends in, then by
\* the YouTube pattern.
EndsInExtension(url, extensions) ==
    /\ Len(url) >= 2
    /\ url[Len(url) - 1] = "."
    /\ ToLowerCase(<<url[Len(url)]>>)[1] \in extensions
StatedType(url) ==
    IF EndsInExtension(url, imageExtensions) THEN "image"
    ELSE IF EndsInExtension(url, videoExtensions) THEN "video"
    ELSE IF IsYouTubeUrl(url) THEN "youtube"
    ELSE "excluded"
RECURSIVE StatedMedia(_)
StatedMedia(matches) ==
    IF matches = <<>> THEN <<>>
    ELSE (IF StatedType(Head(matches)) = "excluded" THEN <<>>
          ELSE <<[type |-> StatedType(Head(matches)), url |-> Head(matches)]>>)
         \o StatedMedia(Tail(matches))

\* C16: every URL of the content is classified image or video by the
\* extension it ends in, else youtube by the YouTube pattern, else excluded,
\* and the media list holds exactly the classified URLs in encounter order.
MediaListAsStated ==
    mediaPc # "idle" =>
        /\ mediaPc = "returned"
        /\ mediaResult = StatedMedia(Matches(mediaContent))

====
